---- MODULE Spec2Model ----
(***************************************************************************)
(* A model of src/air/EN_ATM_GHGT_AIP.py: the concurrent fetch of the      *)
(* emission series of a list of countries and of the EU aggregate, the     *)
(* merge into one dataset, its persistence as JSON, and the dashboard      *)
(* callback that filters the dataset and renders a chart.                  *)
(*                                                                         *)
(* Python strings that are compared or sorted (the year keys) are tuples   *)
(* of digits, so that Python's code-point order is computed, not assumed.  *)
(***************************************************************************)
EXTENDS Integers, Sequences, FiniteSets, TLC

VARIABLES
    pc,             \* where main() stands
    pc_country,     \* where parse_country_data() stands
    task_done,      \* per country fetch task: has fetch_data() returned
    task_result,    \* per country fetch task: the value fetch_data() returned
    arrived,        \* indices of the country fetch tasks, in completion order
    eu_done,        \* has fetch_eu_data() returned
    EU_data,        \* the value fetch_eu_data() returned
    country_data,   \* the value parse_country_data() returned
    combined_data,  \* main's merged dataset
    file,           \* the content of EN_ATM_GHGT_AIP_sorted.json on disk
    save_io,        \* outcome of the file operations of save_data_to_json
    load_io,        \* outcome of the file operations of load_data_from_json
    data_example,   \* the value load_data_from_json() returned
    stdout,         \* what main wrote to sys.stdout
    csv,            \* the rows of EN_ATM_GHGT_AIP_Data.csv
    options,        \* the values offered by the country-select dropdown
    selected_countries, \* the value of the country-select dropdown
    graph_type,     \* the value of the graph-type-select dropdown
    figure,         \* the figure the last update_graph() returned
    fn,             \* a function applied on its own: which one
    arg,            \* a function applied on its own: its argument
    ret             \* a function applied on its own: the value returned

vars == <<pc, pc_country, task_done, task_result, arrived, eu_done, EU_data,
          country_data, combined_data, file, save_io, load_io, data_example,
          stdout, csv, options, selected_countries, graph_type, figure,
          fn, arg, ret>>

(***************************************************************************)
(* Bounds of the model.                                                    *)
(***************************************************************************)
\* how many of the requested country codes the model keeps
NumCodes == 2
\* how many distinct year keys a series is drawn from
NumYears == 3
\* how many distinct emission values a series is drawn from
NumEmissions == 2
\* the longest selection of the country dropdown
MaxSel == 2
\* the most points, over all countries, of a dataset handed to plot_data
MaxPoints == 3

(***************************************************************************)
(* Values.                                                                 *)
(***************************************************************************)
CountryCodeList ==
    <<"AUS", "AUT", "BEL", "BGR", "BLR", "CAN", "CHE", "CYP", "CZE", "DEU",
      "DNK", "ESP", "EST", "FIN", "FRA", "GBR", "GRC", "HRV", "HUN", "IRL",
      "ISL", "ITA", "JPN", "LIE", "LTU", "LUX", "LVA", "MCO", "MLT", "NLD",
      "NOR", "NZL", "POL", "PRT", "ROU", "RUS", "SVK", "SVN", "SWE", "TUR",
      "UKR", "USA">>

\* the requested codes: the last NumCodes of the list, in the list's order
country_codes ==
    SubSeq(CountryCodeList, Len(CountryCodeList) - NumCodes + 1, Len(CountryCodeList))

TaskIds == 1..Len(country_codes)

\* year keys as Python strings: "2019", "2018", "999", "10000"
Y2019 == <<2, 0, 1, 9>>
Y2018 == <<2, 0, 1, 8>>
Y999 == <<9, 9, 9>>
Y10000 == <<1, 0, 0, 0, 0>>
YearPool == <<Y2019, Y2018, Y999, Y10000>>
YearKeys == {YearPool[i] : i \in 1..NumYears}

EmissionPool == <<100, 90, 0, 7>>
Emissions == {EmissionPool[i] : i \in 1..NumEmissions}

\* a dict of year -> emission, as the sequence of its items in insertion order
Items == [k : YearKeys, v : Emissions]
DistinctKeys(s) == \A i, j \in 1..Len(s) : i # j => s[i].k # s[j].k
SeriesDicts ==
    {s \in UNION {[1..n -> Items] : n \in 0..NumYears} : DistinctKeys(s)}

(***************************************************************************)
(* Python values a fetch can return: None, a number, or a dict with its    *)
(* top-level keys and the value stored under 'series'.                     *)
(***************************************************************************)
NoValue == [t |-> "none", items |-> <<>>]
DictValue(items) == [t |-> "dict", items |-> items]

PyNone == [t |-> "none", n |-> 0, keys |-> {}, series |-> NoValue]
PyNum(k) == [t |-> "num", n |-> k, keys |-> {}, series |-> NoValue]
PyDict(keys, sv) == [t |-> "dict", n |-> 0, keys |-> keys, series |-> sv]

\* bool(v)
Truthy(v) ==
    CASE v.t = "none" -> FALSE
      [] v.t = "num" -> v.n # 0
      [] v.t = "dict" -> v.keys # {}

\* 'series' in v raises TypeError unless v is a container
InRaises(v) == v.t \in {"none", "num"}
HasSeries(v) == "series" \in v.keys
\* v['series'].items() raises AttributeError unless the value is a dict
ItemsRaises(v) == v.series.t # "dict"

\* the series the modelled server answers with in a run of main
ExampleSeries == <<[k |-> Y2019, v |-> 100], [k |-> Y2018, v |-> 90]>>
PipeSeries == {<<>>, ExampleSeries}

\* the decoded JSON bodies the modelled server answers with in a run of main:
\* null, 0, 5, {}, {"error": ...}, {"series": null}, {"series": {...}}
DecodedBodies ==
    {PyNone, PyNum(0), PyNum(5), PyDict({}, NoValue), PyDict({"error"}, NoValue),
     PyDict({"series"}, NoValue)}
    \cup {PyDict({"series"}, DictValue(s)) : s \in PipeSeries}

(***************************************************************************)
(* sorted(series.items()): Python orders the (year, value) tuples by the   *)
(* year string, code point by code point, then by the value.               *)
(***************************************************************************)
RECURSIVE StrLess(_, _)
StrLess(a, b) ==
    IF a = <<>> THEN b # <<>>
    ELSE IF b = <<>> THEN FALSE
    ELSE IF Head(a) # Head(b) THEN Head(a) < Head(b)
    ELSE StrLess(Tail(a), Tail(b))

TupleLess(p, q) == StrLess(p.k, q.k) \/ (p.k = q.k /\ p.v < q.v)

RECURSIVE InsertSorted(_, _)
InsertSorted(x, s) ==
    IF s = <<>> THEN <<x>>
    ELSE IF TupleLess(x, Head(s)) THEN <<x>> \o s
    ELSE <<Head(s)>> \o InsertSorted(x, Tail(s))

RECURSIVE SortedFrom(_, _)
SortedFrom(acc, s) ==
    IF s = <<>> THEN acc ELSE SortedFrom(InsertSorted(Head(s), acc), Tail(s))

RECURSIVE YearNumber(_)
YearNumber(y) ==
    IF y = <<>> THEN 0 ELSE 10 * YearNumber(SubSeq(y, 1, Len(y) - 1)) + y[Len(y)]

RECURSIVE InsertNumeric(_, _)
InsertNumeric(x, s) ==
    IF s = <<>> THEN <<x>>
    ELSE IF YearNumber(x.k) < YearNumber(Head(s).k) THEN <<x>> \o s
    ELSE <<Head(s)>> \o InsertNumeric(x, Tail(s))

RECURSIVE SortedNumericFrom(_, _)
SortedNumericFrom(acc, s) ==
    IF s = <<>> THEN acc ELSE SortedNumericFrom(InsertNumeric(Head(s), acc), Tail(s))

\* the items ordered by the year as a number
SortedItemsNumeric(items) == SortedNumericFrom(<<>>, items)

sorted_items(items) == SortedFrom(<<>>, items)

\* [{"year": year, "emission": value} for year, value in sorted(...items())]
SeriesData(items) ==
    LET s == sorted_items(items)
    IN [i \in 1..Len(s) |-> [year |-> s[i].k, emission |-> s[i].v]]

CountrySeries(code, items) == [country_code |-> code, data |-> SeriesData(items)]

(***************************************************************************)
(* fetch_data: the decoded body, or None on any exception.                 *)
(***************************************************************************)
FetchOutcomes ==
    {[kind |-> "transport_error", body |-> PyNone],
     [kind |-> "undecodable", body |-> PyNone]}
    \cup {[kind |-> "json", body |-> b] : b \in DecodedBodies}

fetch_data_result(outcome) ==
    IF outcome.kind = "json" THEN outcome.body ELSE PyNone

(***************************************************************************)
(* parse_country_data, lines 28-39.                                        *)
(***************************************************************************)
\* a wait that resumes with the first finished task
GatherReadyAny(done) == \E i \in DOMAIN done : done[i]

\* await asyncio.gather(*tasks) resumes once every task has finished
GatherReady(done) == \A i \in DOMAIN done : done[i]

\* the results in the order in which the tasks finished
GatherResultsArrival(results, order) ==
    [i \in 1..Len(results) |-> IF i <= Len(order) THEN results[order[i]] ELSE PyNone]

\* gather returns the results in the order of the tasks it was given
GatherResults(results, order) == [i \in 1..Len(results) |-> results[i]]

\* one pass of the for loop: "append", "skip" (no data available) or "raise"
LoopStep(response) ==
    IF ~Truthy(response) THEN "skip"
    ELSE IF InRaises(response) THEN "raise"
    ELSE IF ~HasSeries(response) THEN "skip"
    ELSE IF ItemsRaises(response) THEN "raise"
    ELSE "append"

\* a loop that stops at the first code without data
RECURSIVE ParseLoopStopAtMissing(_, _, _, _)
ParseLoopStopAtMissing(codes, responses, k, acc) ==
    IF k > Len(codes) \/ k > Len(responses) THEN [raised |-> FALSE, country_data |-> acc]
    ELSE LET step == LoopStep(responses[k])
         IN IF step = "raise" THEN [raised |-> TRUE, country_data |-> acc]
            ELSE IF step = "append"
            THEN ParseLoopStopAtMissing(codes, responses, k + 1,
                     Append(acc, CountrySeries(codes[k], responses[k].series.items)))
            ELSE [raised |-> FALSE, country_data |-> acc]

RECURSIVE ParseLoop(_, _, _, _)
ParseLoop(codes, responses, k, acc) ==
    IF k > Len(codes) \/ k > Len(responses) THEN [raised |-> FALSE, country_data |-> acc]
    ELSE LET step == LoopStep(responses[k])
         IN IF step = "raise" THEN [raised |-> TRUE, country_data |-> acc]
            ELSE IF step = "append"
            THEN ParseLoop(codes, responses, k + 1,
                           Append(acc, CountrySeries(codes[k], responses[k].series.items)))
            ELSE ParseLoop(codes, responses, k + 1, acc)

(***************************************************************************)
(* fetch_eu_data: every exception is caught and gives [].                  *)
(***************************************************************************)
fetch_eu_data_result(outcome) ==
    IF outcome.kind # "json" THEN <<>>
    ELSE IF InRaises(outcome.body) THEN <<>>
    ELSE IF ~HasSeries(outcome.body) THEN <<>>
    ELSE IF ItemsRaises(outcome.body) THEN <<>>
    ELSE <<CountrySeries("EU", outcome.body.series.items)>>

\* combined_data = country_data + EU_data if EU_data else country_data
MergePolicy(cd, eu) == IF eu # <<>> THEN cd \o eu ELSE cd

(***************************************************************************)
(* json.dump / json.load on the file: the text is a sequence of tokens     *)
(* (whitespace, which indent=4 adds and the parser skips, is left out).    *)
(* A string token carries the string, a number token its decimal digits.   *)
(***************************************************************************)
Tok(t) == [t |-> t, s |-> <<>>]
StrTok(s) == [t |-> "str", s |-> s]
KeyTok(s) == [t |-> "key", s |-> s]
NumTok(d) == [t |-> "num", s |-> d]

RECURSIVE NumDigits(_)
NumDigits(n) == IF n < 10 THEN <<n>> ELSE Append(NumDigits(n \div 10), n % 10)

RECURSIVE DigitsNum(_)
DigitsNum(d) ==
    IF Len(d) = 1 THEN d[1]
    ELSE 10 * DigitsNum(SubSeq(d, 1, Len(d) - 1)) + d[Len(d)]

RECURSIVE JoinComma(_, _)
JoinComma(parts, k) ==
    IF k > Len(parts) THEN <<>>
    ELSE (IF k > 1 THEN <<Tok(",")>> ELSE <<>>) \o parts[k] \o JoinComma(parts, k + 1)

DumpList(parts) == <<Tok("[")>> \o JoinComma(parts, 1) \o <<Tok("]")>>

DumpPoint(p) ==
    <<Tok("{"), KeyTok("year"), StrTok(p.year), Tok(","),
      KeyTok("emission"), NumTok(NumDigits(p.emission)), Tok("}")>>

DumpEntry(e) ==
    <<Tok("{"), KeyTok("country_code"), StrTok(e.country_code), Tok(","), KeyTok("data")>>
    \o DumpList([i \in 1..Len(e.data) |-> DumpPoint(e.data[i])])
    \o <<Tok("}")>>

\* json.dump(data, json_file, indent=4)
json_dump(data) == DumpList([i \in 1..Len(data) |-> DumpEntry(data[i])])

ParseFail == [ok |-> FALSE, val |-> <<>>, next |-> 0]
TokIs(toks, i, t) == i <= Len(toks) /\ toks[i].t = t

RECURSIVE ParseValue(_, _)
RECURSIVE ParseElems(_, _, _)
RECURSIVE ParseMembers(_, _, _)

ParseValue(toks, i) ==
    IF i > Len(toks) THEN ParseFail
    ELSE CASE toks[i].t = "str" -> [ok |-> TRUE, val |-> toks[i].s, next |-> i + 1]
           [] toks[i].t = "num" -> [ok |-> TRUE, val |-> DigitsNum(toks[i].s), next |-> i + 1]
           [] toks[i].t = "[" ->
                IF TokIs(toks, i + 1, "]") THEN [ok |-> TRUE, val |-> <<>>, next |-> i + 2]
                ELSE ParseElems(toks, i + 1, <<>>)
           [] toks[i].t = "{" ->
                IF TokIs(toks, i + 1, "}") THEN [ok |-> TRUE, val |-> <<>>, next |-> i + 2]
                ELSE ParseMembers(toks, i + 1, <<>>)
           [] OTHER -> ParseFail

ParseElems(toks, i, acc) ==
    LET r == ParseValue(toks, i)
    IN IF ~r.ok THEN ParseFail
       ELSE IF TokIs(toks, r.next, ",") THEN ParseElems(toks, r.next + 1, Append(acc, r.val))
       ELSE IF TokIs(toks, r.next, "]")
       THEN [ok |-> TRUE, val |-> Append(acc, r.val), next |-> r.next + 1]
       ELSE ParseFail

ParseMembers(toks, i, acc) ==
    IF ~TokIs(toks, i, "key") THEN ParseFail
    ELSE LET r == ParseValue(toks, i + 1)
             d == (toks[i].s :> r.val) @@ acc
         IN IF ~r.ok THEN ParseFail
            ELSE IF TokIs(toks, r.next, ",") THEN ParseMembers(toks, r.next + 1, d)
            ELSE IF TokIs(toks, r.next, "}") THEN [ok |-> TRUE, val |-> d, next |-> r.next + 1]
            ELSE ParseFail

\* json.load(json_file): one value and nothing after it, or an exception
json_load(text) ==
    LET r == ParseValue(text, 1)
    IN IF r.ok /\ r.next = Len(text) + 1 THEN r ELSE ParseFail

\* the file: missing, or holding a text
NoFile == [exists |-> FALSE, text |-> <<>>]
FileWith(text) == [exists |-> TRUE, text |-> text]

\* what a previous run left on disk
StaleData == <<CountrySeries("USA", <<[k |-> Y2018, v |-> 90]>>)>>
InitialFiles == {NoFile, FileWith(json_dump(StaleData))}

\* open(file_path, 'a') keeps what the file held
OpenForAppend(f) == f.text

\* open(file_path, 'w') creates the file or truncates it
OpenForWrite(f) == <<>>

\* where a write that fails half way may have stopped
PartialCuts(text) == {0, Len(text) - 1}

(***************************************************************************)
(* main's other outputs: the dataset on stdout and the flattened CSV.      *)
(***************************************************************************)
StdoutDump(data) ==
    <<Tok("{"), KeyTok("EN_ATM_GHGT_AIP_Data")>> \o json_dump(data) \o <<Tok("}")>>

RECURSIVE FlattenRows(_, _)
FlattenRows(data, k) ==
    IF k > Len(data) THEN <<>>
    ELSE [i \in 1..Len(data[k].data) |->
             [country_code |-> data[k].country_code,
              year |-> data[k].data[i].year,
              emission |-> data[k].data[i].emission]]
         \o FlattenRows(data, k + 1)

\* a DataFrame built from no rows has no columns, so no header
CsvFile(data) ==
    LET rows == FlattenRows(data, 1)
    IN [header |-> IF rows = <<>> THEN <<>> ELSE <<"country_code", "year", "emission">>,
        rows |-> rows]

(***************************************************************************)
(* plot_data: a figure is its traces (the layout is the same for all).     *)
(***************************************************************************)
GraphTypes == {"line", "bar", "pie", "stacked"}
\* what graph_type can be: a supported type, or anything else
GraphTypeValues == GraphTypes \cup {"other"}

YearsOf(country) == [i \in 1..Len(country.data) |-> country.data[i].year]
EmissionsOf(country) == [i \in 1..Len(country.data) |-> country.data[i].emission]

RECURSIVE SumSeq(_)
SumSeq(s) == IF s = <<>> THEN 0 ELSE Head(s) + SumSeq(Tail(s))

\* set([item['year'] for country in combined_data for item in country['data']])
YearSet(data) ==
    UNION {{data[k].data[i].year : i \in 1..Len(data[k].data)} : k \in 1..Len(data)}

\* sorted(list(years)) of a set of strings
RECURSIVE SortedStrings(_)
SortedStrings(S) ==
    IF S = {} THEN <<>>
    ELSE LET m == CHOOSE x \in S : \A y \in S : y = x \/ StrLess(x, y)
         IN <<m>> \o SortedStrings(S \ {m})

\* years.index(y): the first position of y
IndexOf(years, y) == CHOOSE i \in 1..Len(years) : years[i] = y /\ \A j \in 1..(i - 1) : years[j] # y

\* a dict as the sequence of its (key, val) pairs in insertion order
DictIndex(d, key) ==
    IF \E i \in 1..Len(d) : d[i].key = key
    THEN CHOOSE i \in 1..Len(d) : d[i].key = key
    ELSE 0

DictSet(d, key, val) ==
    IF DictIndex(d, key) = 0 THEN Append(d, [key |-> key, val |-> val])
    ELSE [d EXCEPT ![DictIndex(d, key)].val = val]

\* {country['country_code']: [0] * len(years) for country in combined_data}
RECURSIVE ZeroDict(_, _, _, _)
ZeroDict(data, years, k, d) ==
    IF k > Len(data) THEN d
    ELSE ZeroDict(data, years, k + 1,
                  DictSet(d, data[k].country_code, [j \in 1..Len(years) |-> 0]))

\* vec[idx] = e
AddAtOverwrite(vec, idx, e) == [vec EXCEPT ![idx] = e]

\* vec[idx] += e
AddAt(vec, idx, e) == [vec EXCEPT ![idx] = @ + e]

\* for item in country['data']: data_dict[code][years.index(item['year'])] += ...
RECURSIVE AccumulateItems(_, _, _, _)
AccumulateItems(vec, items, years, i) ==
    IF i > Len(items) THEN vec
    ELSE AccumulateItems(AddAt(vec, IndexOf(years, items[i].year), items[i].emission),
                         items, years, i + 1)

\* for country in combined_data: ...
RECURSIVE AccumulateCountries(_, _, _, _)
AccumulateCountries(d, data, years, k) ==
    IF k > Len(data) THEN d
    ELSE LET code == data[k].country_code
             vec == d[DictIndex(d, code)].val
         IN AccumulateCountries(
                DictSet(d, code, AccumulateItems(vec, data[k].data, years, 1)),
                data, years, k + 1)

StackedTraces(data) ==
    LET years == SortedStrings(YearSet(data))
        data_dict == AccumulateCountries(ZeroDict(data, years, 1, <<>>), data, years, 1)
    IN [i \in 1..Len(data_dict) |->
           [type |-> "bar", name |-> data_dict[i].key, x |-> years, y |-> data_dict[i].val]]

Layout ==
    [title |-> "EN_ATM_GHGT_AIP Data", xaxis_title |-> "Year",
     yaxis_title |-> "Emission", template |-> "plotly_dark"]

PlotTraces(data, gtype) ==
    CASE gtype = "line" ->
           [i \in 1..Len(data) |->
               [type |-> "scatter", mode |-> "lines+markers",
                name |-> data[i].country_code,
                x |-> YearsOf(data[i]), y |-> EmissionsOf(data[i])]]
      [] gtype = "bar" ->
           [i \in 1..Len(data) |->
               [type |-> "bar", name |-> data[i].country_code,
                x |-> YearsOf(data[i]), y |-> EmissionsOf(data[i])]]
      [] gtype = "pie" ->
           <<[type |-> "pie",
              labels |-> [i \in 1..Len(data) |-> data[i].country_code],
              values |-> [i \in 1..Len(data) |-> SumSeq(EmissionsOf(data[i]))]]>>
      [] gtype = "stacked" -> StackedTraces(data)
      [] OTHER -> <<>>

plot_data(data, gtype) == [traces |-> PlotTraces(data, gtype), layout |-> Layout]

\* no figure returned yet
NoFigure == [traces |-> <<>>, layout |-> [title |-> "", xaxis_title |-> "",
                                         yaxis_title |-> "", template |-> ""]]

(***************************************************************************)
(* update_graph: the dataset entries whose code is selected.               *)
(***************************************************************************)
SeqRange(s) == {s[i] : i \in 1..Len(s)}

\* the entries picked code by code, in the order of the selection
RECURSIVE SelectedDataInSelectionOrder(_, _)
SelectedDataInSelectionOrder(data, selected) ==
    IF selected = <<>> THEN <<>>
    ELSE SelectSeq(data, LAMBDA c : c.country_code = Head(selected))
         \o SelectedDataInSelectionOrder(data, Tail(selected))

\* [country for country in combined_data if country['country_code'] in selected_countries]
selected_data(data, selected) ==
    SelectSeq(data, LAMBDA c : c.country_code \in SeqRange(selected))

\* value=['USA'] of the country dropdown
DefaultSelection == <<"USA">>

\* options listing every requested code
DropdownOptionsAllCodes(data) == country_codes

\* options=[{'label': ..., 'value': country['country_code']} for country in combined_data]
DropdownOptions(data) == [i \in 1..Len(data) |-> data[i].country_code]

RemoveAt(s, i) == SubSeq(s, 1, i - 1) \o SubSeq(s, i + 1, Len(s))

\* the values a multi-select dropdown can take next: one option more, at the
\* end, or one selected value less
SelectionChanges(selected, opts) ==
    {Append(selected, c) : c \in {o \in SeqRange(opts) :
                                     o \notin SeqRange(selected) /\ Len(selected) < MaxSel}}
    \cup {RemoveAt(selected, i) : i \in 1..Len(selected)}

\* the inputs of the callback: it runs with the current values when the page
\* loads, and again whenever one of the two dropdowns changes
CallbackInputs(selected, gtype, opts) ==
    {<<selected, gt>> : gt \in GraphTypeValues}
    \cup {<<sc, gtype>> : sc \in SelectionChanges(selected, opts)}

(***************************************************************************)
(* The run of main().                                                      *)
(***************************************************************************)
NoCsv == [header |-> <<>>, rows |-> <<>>]

IdleHarness == fn = "none" /\ arg = <<>> /\ ret = <<>>

Init ==
    /\ pc = "start"
    /\ pc_country = "idle"
    /\ task_done = [i \in TaskIds |-> FALSE]
    /\ task_result = [i \in TaskIds |-> PyNone]
    /\ arrived = <<>>
    /\ eu_done = FALSE
    /\ EU_data = <<>>
    /\ country_data = <<>>
    /\ combined_data = <<>>
    /\ file \in InitialFiles
    /\ save_io = "none"
    /\ load_io = "none"
    /\ data_example = <<>>
    /\ stdout = <<>>
    /\ csv = NoCsv
    /\ options = <<>>
    /\ selected_countries = <<>>
    /\ graph_type = ""
    /\ figure = NoFigure
    /\ IdleHarness

\* lines 113-125: the two coroutines are handed to gather; parse_country_data
\* creates its N fetch tasks and awaits them
main_start ==
    /\ pc = "start"
    /\ pc' = "gather"
    /\ pc_country' = "gathering"
    /\ UNCHANGED <<task_done, task_result, arrived, eu_done, EU_data, country_data,
                   combined_data, file, save_io, load_io, data_example, stdout, csv,
                   options, selected_countries, graph_type, figure, fn, arg, ret>>

\* lines 15-21: one country fetch finishes, in any order among its siblings
fetch_data(i) ==
    /\ pc = "gather"
    /\ pc_country = "gathering"
    /\ ~task_done[i]
    /\ \E outcome \in FetchOutcomes :
          task_result' = [task_result EXCEPT ![i] = fetch_data_result(outcome)]
    /\ task_done' = [task_done EXCEPT ![i] = TRUE]
    /\ arrived' = Append(arrived, i)
    /\ UNCHANGED <<pc, pc_country, eu_done, EU_data, country_data, combined_data,
                   file, save_io, load_io, data_example, stdout, csv, options,
                   selected_countries, graph_type, figure, fn, arg, ret>>

\* lines 28-39: the gather resumes and the loop runs without suspending
parse_country_data ==
    /\ pc = "gather"
    /\ pc_country = "gathering"
    /\ GatherReady(task_done)
    /\ LET responses == GatherResults(task_result, arrived)
           r == ParseLoop(country_codes, responses, 1, <<>>)
       IN \/ /\ ~r.raised
             /\ pc_country' = "returned"
             /\ country_data' = r.country_data
          \/ /\ r.raised
             /\ pc_country' = "raised"
             /\ country_data' = <<>>
    /\ arrived' = <<>>
    /\ UNCHANGED <<pc, task_done, task_result, eu_done, EU_data, combined_data,
                   file, save_io, load_io, data_example, stdout, csv, options,
                   selected_countries, graph_type, figure, fn, arg, ret>>

\* lines 41-57: the EU fetch finishes, concurrently with the country batch
fetch_eu_data ==
    /\ pc = "gather"
    /\ ~eu_done
    /\ \E outcome \in FetchOutcomes : EU_data' = fetch_eu_data_result(outcome)
    /\ eu_done' = TRUE
    /\ UNCHANGED <<pc, pc_country, task_done, task_result, arrived, country_data,
                   combined_data, file, save_io, load_io, data_example, stdout, csv,
                   options, selected_countries, graph_type, figure, fn, arg, ret>>

\* line 125: an exception of parse_country_data leaves the gather and main at
\* once; asyncio.run then cancels what is still pending
main_raise ==
    /\ pc = "gather"
    /\ pc_country = "raised"
    /\ pc' = "aborted"
    /\ UNCHANGED <<pc_country, task_done, task_result, arrived, eu_done, EU_data,
                   country_data, combined_data, file, save_io, load_io, data_example,
                   stdout, csv, options, selected_countries, graph_type, figure,
                   fn, arg, ret>>

\* lines 125-127: both coroutines have returned; the merge. The results of
\* the fetch tasks are gone by now
main_merge ==
    /\ pc = "gather"
    /\ pc_country # "raised"
    /\ GatherReady(<<pc_country = "returned", eu_done>>)
    /\ combined_data' = MergePolicy(country_data, EU_data)
    /\ task_result' = [i \in TaskIds |-> PyNone]
    /\ pc' = "save"
    /\ UNCHANGED <<pc_country, task_done, arrived, eu_done, EU_data,
                   country_data, file, save_io, load_io, data_example, stdout, csv,
                   options, selected_countries, graph_type, figure, fn, arg, ret>>

\* lines 59-65, called at line 129
save_data_to_json ==
    /\ pc = "save"
    /\ \/ /\ file' = file                     \* open() raises
          /\ save_io' = "fail"
       \/ /\ \E cut \in PartialCuts(json_dump(combined_data)) :   \* the write raises
                file' = FileWith(OpenForWrite(file)
                                 \o SubSeq(json_dump(combined_data), 1, cut))
          /\ save_io' = "fail"
       \/ /\ file' = FileWith(OpenForWrite(file) \o json_dump(combined_data))
          /\ save_io' = "ok"
    /\ pc' = "load"
    /\ UNCHANGED <<pc_country, task_done, task_result, arrived, eu_done, EU_data,
                   country_data, combined_data, load_io, data_example, stdout, csv,
                   options, selected_countries, graph_type, figure, fn, arg, ret>>

\* a load whose value replaces the dataset
load_data_from_json_into_dataset ==
    /\ pc = "load"
    /\ \/ /\ data_example' = <<>>
          /\ load_io' = "fail"
       \/ /\ file.exists
          /\ LET r == json_load(file.text)
             IN data_example' = IF r.ok THEN r.val ELSE <<>>
          /\ load_io' = "ok"
    /\ combined_data' = data_example'
    /\ pc' = "output"
    /\ UNCHANGED <<pc_country, task_done, task_result, arrived, eu_done, EU_data,
                   country_data, file, save_io, stdout, csv,
                   options, selected_countries, graph_type, figure, fn, arg, ret>>

\* lines 67-74, called at line 130
load_data_from_json ==
    /\ pc = "load"
    /\ \/ /\ data_example' = <<>>             \* open() or the read raises
          /\ load_io' = "fail"
       \/ /\ file.exists
          /\ LET r == json_load(file.text)
             IN data_example' = IF r.ok THEN r.val ELSE <<>>
          /\ load_io' = "ok"
    /\ pc' = "output"
    /\ UNCHANGED <<pc_country, task_done, task_result, arrived, eu_done, EU_data,
                   country_data, combined_data, file, save_io, stdout, csv,
                   options, selected_countries, graph_type, figure, fn, arg, ret>>

\* lines 131-137: stdout and the CSV; to_csv is not guarded
main_output ==
    /\ pc = "output"
    /\ stdout' = StdoutDump(combined_data)
    /\ \/ /\ csv' = CsvFile(combined_data)
          /\ pc' = "layout"
       \/ /\ csv' = csv                       \* to_csv raises
          /\ pc' = "aborted"
    /\ UNCHANGED <<pc_country, task_done, task_result, arrived, eu_done, EU_data,
                   country_data, combined_data, file, save_io, load_io, data_example,
                   options, selected_countries, graph_type, figure, fn, arg, ret>>

\* lines 139-171: the layout with its defaults, and the server starts
main_run_server ==
    /\ pc = "layout"
    /\ options' = DropdownOptions(combined_data)
    /\ selected_countries' = DefaultSelection
    /\ graph_type' = "line"
    /\ pc' = "serving"
    /\ UNCHANGED <<pc_country, task_done, task_result, arrived, eu_done, EU_data,
                   country_data, combined_data, file, save_io, load_io, data_example,
                   stdout, csv, figure, fn, arg, ret>>

\* lines 162-169: the callback, for the dropdowns' current values
update_graph ==
    /\ pc = "serving"
    /\ \E in \in CallbackInputs(selected_countries, graph_type, options) :
          /\ selected_countries' = in[1]
          /\ graph_type' = in[2]
          /\ figure' = plot_data(selected_data(combined_data, in[1]), in[2])
    /\ UNCHANGED <<pc, pc_country, task_done, task_result, arrived, eu_done, EU_data,
                   country_data, combined_data, file, save_io, load_io, data_example,
                   stdout, csv, options, fn, arg, ret>>

Next ==
    \/ main_start
    \/ \E i \in TaskIds : fetch_data(i)
    \/ parse_country_data
    \/ fetch_eu_data
    \/ main_raise
    \/ main_merge
    \/ save_data_to_json
    \/ load_data_from_json
    \/ main_output
    \/ main_run_server
    \/ update_graph

Spec == Init /\ [][Next]_vars

(***************************************************************************)
(* The reshaping of one response and the chart renderer, applied to        *)
(* arguments drawn from bounded sets.                                      *)
(***************************************************************************)
IdlePipeline ==
    /\ pc = "harness"
    /\ pc_country = "idle"
    /\ task_done = [i \in TaskIds |-> FALSE]
    /\ task_result = [i \in TaskIds |-> PyNone]
    /\ arrived = <<>>
    /\ eu_done = FALSE
    /\ EU_data = <<>>
    /\ country_data = <<>>
    /\ combined_data = <<>>
    /\ file = NoFile
    /\ save_io = "none"
    /\ load_io = "none"
    /\ data_example = <<>>
    /\ stdout = <<>>
    /\ csv = NoCsv
    /\ options = <<>>
    /\ selected_countries = <<>>
    /\ graph_type = ""
    /\ figure = NoFigure

pipeline_vars ==
    <<pc, pc_country, task_done, task_result, arrived, eu_done, EU_data,
      country_data, combined_data, file, save_io, load_io, data_example,
      stdout, csv, options, selected_countries, graph_type, figure>>

\* every response {"series": {...}}: the keys in any insertion order
ReshapeInputs == {PyDict({"series"}, DictValue(s)) : s \in SeriesDicts}

InitReshape ==
    /\ IdlePipeline
    /\ fn = "none"
    /\ arg \in ReshapeInputs
    /\ ret = <<>>

\* lines 30-39 on the response of one country
call_parse_country_data ==
    /\ pc = "harness"
    /\ fn = "none"
    /\ fn' = "parse_country_data"
    /\ ret' = ParseLoop(<<"AUS">>, <<arg>>, 1, <<>>).country_data
    /\ UNCHANGED <<arg, pipeline_vars>>

\* lines 47-51 on the response for the EU
call_fetch_eu_data ==
    /\ pc = "harness"
    /\ fn = "none"
    /\ fn' = "fetch_eu_data"
    /\ ret' = fetch_eu_data_result([kind |-> "json", body |-> arg])
    /\ UNCHANGED <<arg, pipeline_vars>>

NextReshape == call_parse_country_data \/ call_fetch_eu_data

SpecReshape == InitReshape /\ [][NextReshape]_vars

\* the datasets handed to plot_data: entries with distinct codes, each with
\* points in any order, a year possibly more than once
Points == [year : YearKeys, emission : Emissions]
DataSeqs(n) == UNION {[1..k -> Points] : k \in 0..n}
PlotCodes == {"AUS", "AUT"}

Entry(c, d) == [country_code |-> c, data |-> d]

InitPlot ==
    /\ IdlePipeline
    /\ fn = "none"
    /\ \/ arg = <<>>
       \/ \E c \in PlotCodes, d \in DataSeqs(MaxPoints) : arg = <<Entry(c, d)>>
       \/ \E c1 \in PlotCodes, d1 \in DataSeqs(MaxPoints) :
             \E c2 \in PlotCodes \ {c1}, d2 \in DataSeqs(MaxPoints - Len(d1)) :
                arg = <<Entry(c1, d1), Entry(c2, d2)>>
    /\ ret = <<>>

\* lines 76-110, the 'stacked' chart
call_plot_data ==
    /\ pc = "harness"
    /\ fn = "none"
    /\ fn' = "stacked"
    /\ ret' = plot_data(arg, "stacked")
    /\ UNCHANGED <<arg, pipeline_vars>>

NextPlot == call_plot_data

SpecPlot == InitPlot /\ [][NextPlot]_vars

(***************************************************************************)
(* The claims.                                                             *)
(***************************************************************************)
\* Python's order of two strings, stated on positions: a is before b when, at
\* the first position where they differ, a has ended or has the smaller digit
YearStringBefore(a, b) ==
    \E i \in 1..(Len(b)) :
        /\ \A j \in 1..(i - 1) : j <= Len(a) /\ a[j] = b[j]
        /\ (i > Len(a) \/ a[i] < b[i])
        /\ i - 1 <= Len(a)

CodesOf(data) == [i \in 1..Len(data) |-> data[i].country_code]
PositionOf(s, x) == CHOOSE i \in 1..Len(s) : s[i] = x
NoRepeats(s) == \A i, j \in 1..Len(s) : i # j => s[i] # s[j]
\* s lists some elements of t, each once, in t's order
InOrderOf(s, t) ==
    /\ NoRepeats(s)
    /\ SeqRange(s) \subseteq SeqRange(t)
    /\ \A i, j \in 1..Len(s) : i < j => PositionOf(t, s[i]) < PositionOf(t, s[j])

\* main is past the merge and still running
Merged == pc \in {"save", "load", "output", "layout", "serving"}
\* parse_country_data has returned and main has not yet read the results
Returned == pc = "gather" /\ pc_country = "returned"

ResponseHasSeries(r) == r.t = "dict" /\ "series" \in r.keys
\* the outcomes C1 names: a failed fetch (None), a body without 'series', a
\* body with a 'series' map
NamedOutcome(r) ==
    \/ r.t = "none"
    \/ r.t = "dict" /\ "series" \notin r.keys
    \/ r.t = "dict" /\ "series" \in r.keys /\ r.series.t = "dict"

\* C1: when every country fetch ended in one of the named outcomes, the
\* aggregator returns (it does not raise) one entry for each code whose response
\* contained 'series' and none for the others, and the merged dataset holds
\* exactly these country entries.
C1_OneEntryPerSeries ==
    /\ (pc = "gather" /\ pc_country \in {"returned", "raised"}
        /\ \A i \in TaskIds : NamedOutcome(task_result[i]))
       => /\ pc_country = "returned"
          /\ Len(country_data) =
                Cardinality({i \in TaskIds : ResponseHasSeries(task_result[i])})
          /\ SeqRange(CodesOf(country_data)) =
                {country_codes[i] : i \in {j \in TaskIds : ResponseHasSeries(task_result[j])}}
    /\ Merged =>
          Cardinality({k \in 1..Len(combined_data) : combined_data[k].country_code # "EU"})
             = Len(country_data)

\* one code failed, the other still contributed its entry
C1_Witness ==
    /\ Returned
    /\ task_result[1].t = "none"
    /\ Len(country_data) = Len(country_codes) - 1
    /\ Len(country_data) > 0

\* C2 (as claimed): no outcome of the fetches makes main stop before the
\* dashboard: parse_country_data never raises into main's gather.
C2_NoFatalPath == ~(pc = "aborted" /\ pc_country = "raised")

\* C3: the country entries are in the order of the requested codes, each built
\* from the response to its own code, and the merged dataset is these entries
\* followed by the EU entry exactly when the EU fetch produced one.
C3_RequestOrder ==
    /\ Returned =>
          /\ InOrderOf(CodesOf(country_data), country_codes)
          /\ \A i \in TaskIds :
                ResponseHasSeries(task_result[i]) <=>
                   country_codes[i] \in SeqRange(CodesOf(country_data))
          /\ \A k \in 1..Len(country_data) :
                LET r == task_result[PositionOf(country_codes, country_data[k].country_code)]
                    d == country_data[k].data
                IN /\ ResponseHasSeries(r)
                   /\ Len(d) = Len(r.series.items)
                   /\ {<<d[m].year, d[m].emission>> : m \in 1..Len(d)} =
                         {<<r.series.items[m].k, r.series.items[m].v>> :
                             m \in 1..Len(r.series.items)}
    /\ Merged =>
          /\ Len(combined_data) = Len(country_data) + (IF EU_data = <<>> THEN 0 ELSE 1)
          /\ \A k \in 1..Len(country_data) : combined_data[k] = country_data[k]
          /\ EU_data # <<>> =>
                /\ combined_data[Len(combined_data)] = EU_data[1]
                /\ combined_data[Len(combined_data)].country_code = "EU"
          /\ \A k \in 1..Len(country_data) : combined_data[k].country_code # "EU"

\* every code and the EU answered, with different series for the two countries
C3_Witness ==
    /\ pc = "save"
    /\ Len(combined_data) = Len(country_codes) + 1
    /\ CodesOf(combined_data) = country_codes \o <<"EU">>
    /\ combined_data[1].data # combined_data[2].data

\* C4: the data of the entry built from a response with a 'series' map is in
\* strictly ascending order of the year strings and holds one point for each
\* key of the map, with the key's value.
C4_SortedOnePointPerKey ==
    fn \in {"parse_country_data", "fetch_eu_data"} =>
       /\ Len(ret) = 1
       /\ ret[1].country_code = (IF fn = "fetch_eu_data" THEN "EU" ELSE "AUS")
       /\ LET d == ret[1].data
              items == arg.series.items
          IN /\ Len(d) = Len(items)
             /\ \A i \in 1..(Len(d) - 1) : YearStringBefore(d[i].year, d[i + 1].year)
             /\ \A j \in 1..Len(items) :
                   \E i \in 1..Len(d) :
                      d[i].year = items[j].k /\ d[i].emission = items[j].v

\* the example: {"2019": 100, "2018": 90} for AUS
C4_Witness ==
    /\ fn = "parse_country_data"
    /\ arg.series.items = <<[k |-> Y2019, v |-> 100], [k |-> Y2018, v |-> 90]>>
    /\ ret = <<[country_code |-> "AUS",
                data |-> <<[year |-> Y2018, emission |-> 90],
                           [year |-> Y2019, emission |-> 100]>>]>>

\* C5: when neither save nor load met an I/O failure, the loaded value equals
\* the dataset that was saved, whatever the file held before.
C5_RoundTrip ==
    (save_io = "ok" /\ load_io = "ok") => data_example = combined_data

C5_Witness ==
    /\ save_io = "ok"
    /\ load_io = "ok"
    /\ Len(combined_data) >= 2
    /\ \E k \in 1..Len(combined_data) : Len(combined_data[k].data) = 2
    /\ data_example = combined_data

RECURSIVE EmissionAt(_, _)
\* the sum of the emissions of the points of data whose year is y
EmissionAt(data, y) ==
    IF data = <<>> THEN 0
    ELSE (IF Head(data).year = y THEN Head(data).emission ELSE 0) + EmissionAt(Tail(data), y)

\* C6: a stacked chart has one bar series per country, in the order of the
\* subset; every series has the same year axis, which holds each year of the
\* subset once in ascending string order; and a country's value at a year is
\* the sum of its emissions for that year, 0 when it has none.
C6_StackedAxisAndValues ==
    fn = "stacked" =>
       /\ Len(ret.traces) = Len(arg)
       /\ \A i \in 1..Len(arg) :
             LET tr == ret.traces[i]
             IN /\ tr.type = "bar"
                /\ tr.name = arg[i].country_code
                /\ SeqRange(tr.x) =
                      UNION {{arg[k].data[m].year : m \in 1..Len(arg[k].data)} :
                                k \in 1..Len(arg)}
                /\ \A j \in 1..(Len(tr.x) - 1) : YearStringBefore(tr.x[j], tr.x[j + 1])
                /\ Len(tr.y) = Len(tr.x)
                /\ \A j \in 1..Len(tr.x) : tr.y[j] = EmissionAt(arg[i].data, tr.x[j])

\* the example: A has two years, B only the first; B's second value is 0
C6_Witness ==
    /\ fn = "stacked"
    /\ arg = <<[country_code |-> "AUS",
                data |-> <<[year |-> Y2018, emission |-> 100], [year |-> Y2019, emission |-> 90]>>],
               [country_code |-> "AUT",
                data |-> <<[year |-> Y2018, emission |-> 90]>>]>>
    /\ ret.traces[2].x = <<Y2018, Y2019>>
    /\ ret.traces[2].y = <<90, 0>>
    /\ ret.traces[1].y = <<100, 90>>

FigureNames ==
    IF graph_type = "pie" THEN figure.traces[1].labels
    ELSE [i \in 1..Len(figure.traces) |-> figure.traces[i].name]

\* C7: for a supported chart type, the figure the callback returns shows the
\* dataset entries whose code is selected, each once, in the order of the
\* dataset, with the entry's own years and emissions.
C7_SelectedInDatasetOrder ==
    (pc = "serving" /\ figure # NoFigure /\ graph_type \in GraphTypes) =>
       /\ SeqRange(FigureNames) =
             SeqRange(CodesOf(combined_data)) \cap SeqRange(selected_countries)
       /\ InOrderOf(FigureNames, CodesOf(combined_data))
       /\ graph_type \in {"line", "bar"} =>
             \A i \in 1..Len(figure.traces) :
                LET e == combined_data[PositionOf(CodesOf(combined_data), figure.traces[i].name)]
                IN /\ figure.traces[i].x = [m \in 1..Len(e.data) |-> e.data[m].year]
                   /\ figure.traces[i].y = [m \in 1..Len(e.data) |-> e.data[m].emission]

\* USA was selected first and UKR second; the chart shows UKR first
C7_Witness ==
    /\ pc = "serving"
    /\ selected_countries = <<"USA", "UKR">>
    /\ graph_type = "line"
    /\ Len(figure.traces) = 2
    /\ figure.traces[1].name = "UKR"
    /\ figure.traces[2].name = "USA"

\* C8: once merged, the dataset is not changed by any step of main or by any
\* callback.
C8_DatasetReadOnly ==
    [][(pc \in {"save", "load", "output", "layout", "serving", "aborted"})
          => (combined_data' = combined_data)]_vars

\* a stacked chart was rendered from a dataset whose reload gave something else
C8_Witness ==
    /\ pc = "serving"
    /\ graph_type = "stacked"
    /\ Len(figure.traces) = 2
    /\ data_example # combined_data
    /\ Len(combined_data) = 3

\* C9: the reshaping of the country responses starts only when every country
\* fetch has finished, and the merge and all that follows only when the
\* country batch has returned and the EU fetch has finished.
C9_FanInBeforeUse ==
    /\ pc_country \in {"returned", "raised"} => \A i \in TaskIds : task_done[i]
    /\ country_data # <<>> => \A i \in TaskIds : task_done[i]
    /\ (Merged \/ combined_data # <<>>) =>
          /\ \A i \in TaskIds : task_done[i]
          /\ eu_done
          /\ pc_country = "returned"

C9_Witness ==
    /\ pc = "save"
    /\ country_data # <<>>
    /\ EU_data # <<>>
    /\ \A i \in TaskIds : task_done[i]

\* C10 (as claimed): the default selection is among the options in every run.
C10_DefaultAlwaysOffered ==
    pc = "serving" => SeqRange(DefaultSelection) \subseteq SeqRange(options)

\* C10 (amended): 'USA' is among the options exactly when the response for USA
\* contained 'series'; the chart first rendered, for the default selection,
\* shows the USA series in that case and no series otherwise.
C10_DefaultOfferedIffUsaSeries ==
    /\ Returned =>
          ("USA" \in SeqRange(CodesOf(country_data))
             <=> ResponseHasSeries(task_result[PositionOf(country_codes, "USA")]))
    /\ pc = "serving" =>
          /\ SeqRange(options) = SeqRange(CodesOf(combined_data))
          /\ "USA" \in SeqRange(options) <=> "USA" \in SeqRange(CodesOf(country_data))
          /\ (selected_countries = DefaultSelection /\ graph_type = "line"
              /\ figure # NoFigure) =>
                IF "USA" \in SeqRange(options)
                THEN Len(figure.traces) = 1 /\ figure.traces[1].name = "USA"
                ELSE figure.traces = <<>>

\* the USA fetch gave no series: the first chart is empty
C10_Witness ==
    /\ pc = "serving"
    /\ "USA" \notin SeqRange(options)
    /\ options # <<>>
    /\ selected_countries = DefaultSelection
    /\ figure # NoFigure
    /\ figure.traces = <<>>

====
